---- MODULE Spec2Model ----
(***************************************************************************)
(* compas_session: the two session classes as state machines.              *)
(*                                                                         *)
(*   Spec         LazyLoadSession (lazyload.py): one process-wide slot,    *)
(*                a lazily loaded data cache over a directory of files,    *)
(*                and a history of directory snapshots.                    *)
(*   SpecSession  Session (session.py): the registry keyed by name.        *)
(*                                                                         *)
(* The file system is part of the state: the data directory, the records   *)
(* directory, the history file and the scene/settings/tolerance/version    *)
(* files of the session directory.                                         *)
(***************************************************************************)
EXTENDS Integers, Sequences, FiniteSets, TLC

\* ------------------------------------------------------------------ bounds
\* record calls made in one run (each takes a fresh timestamp)
MaxRecords == 3
\* the explicit depth argument a caller may pass to the constructor
SmallDepth == 2
\* snapshot files Session.record makes in one run
MaxSessionFiles == 1
MaxUndoFiles == 2

\* Python's None, as a return value and as an absent argument
None == "None"

\* ------------------------------------------------------- program constants
\* LazyLoadSession._depth, the class default
DefaultDepth == 53

Keys == {"x"}
Vals == {"10", "20"}
\* the label of the n-th record call: callers label their records apart
LabelSeq == <<"A", "B", "C", "D", "E", "F", "G", "H">>
Labels(n) == {LabelSeq[n]}
\* the name argument of LazyLoadSession(...): "" stands for None and ""
NameArgs == {"", "One"}
\* the same, with the two names of the tests
TestNameArgs == {"", "One", "Two"}
\* the depth argument: 0 stands for None (and 0), which `depth or cls._depth` replaces
DepthArgs == {0, SmallDepth}
\* the settings argument: None, or a Settings object with autosync switched off
SettingsArgs == {None, "Settings(autosync=False)"}
\* the default argument of get: None, or a value of the caller's
Defaults == {None, "0"}
\* the keys and values of the data store specification: a JSON value and a Brep
StoreKeys == {"x", "y"}
StoreVals == {"10", "Brep"}
\* the filepath argument of get, as the extension of <datadir>/<key>.<ext>
FilepathArgs == {"obj", "stp"}
\* basedir.parts[-1], the fallback name
BaseDirName == "basedir"


\* ============================================================ LazyLoadSession

VARIABLES
    _instance,    \* the class slot: 0 is None, n > 0 the n-th object created
    _name,
    _current,
    _depth,
    _history,     \* sequence of entries [id, label, tup]
    _data,        \* the cache: a function from the resident keys to values
    _settings,    \* [autosave, autosync]
    sessiondir,   \* whether <basedir>/<name>.session exists
    datadir,      \* function from <<key, ext>> of the existing files to contents
    recordsdir,   \* function from the ids of the existing snapshot folders
    historyfile,  \* <<>> when absent, else <<[depth, current, records]>>
    auxfiles,     \* scene, settings, tolerance, version: <<>> or <<content>>
    clock,        \* timestamps handed out so far
    lastOp,       \* the call that returned last
    arg,          \* its name argument (a construction) or default argument (get)
    key,          \* its key argument (get, set, setdefault, delete, session[key])
    deleting,     \* its delete_existing argument (a construction)
    ret,          \* what it returned
    run           \* record calls since the last undo, redo or clear_history

\* Session (session.py)
VARIABLES
    _instances,   \* the class registry: a function from the registered names to objects
    sessions,     \* the Session objects made so far, by identity 1, 2, ...
    returned,     \* every <<name, object>> a construction has returned
    tempfiles,    \* the files record has made with mkstemp: path n holds tempfiles[n]
    scall,        \* the name and settings arguments of the last call, a construction
    sret          \* its outcome

\* the run of consecutive calls of undo, or of redo, that is under way
VARIABLES
    streakLimit,  \* at its first call: current (undo), len(history) - 1 - current (redo)
    streakTrue    \* how many of its calls have returned True

sessvars == <<_instances, sessions, returned, tempfiles, scall, sret>>

streakvars == <<streakLimit, streakTrue>>

lazyvars == <<_instance, _name, _current, _depth, _history, _data, _settings,
              sessiondir, datadir, recordsdir, historyfile, auxfiles, clock,
              lastOp, arg, key, deleting, ret, run>>

\* what a call may change: the object and the session directory
memory == <<_current, _depth, _history, _data, _settings>>
disk == <<sessiondir, datadir, recordsdir, historyfile, auxfiles>>

EmptyFn == [k \in {} |-> None]
NoAux == [scene |-> <<>>, settings |-> <<>>, tolerance |-> <<>>, version |-> <<>>]

\* Settings(): autosave False, autosync True
DefaultSettings == [autosave |-> FALSE, autosync |-> TRUE]

\* __new__: settings or instance.settingsclass()
SettingsOr(settings) ==
    IF settings = None THEN DefaultSettings ELSE [autosave |-> FALSE, autosync |-> FALSE]

\* ---------------------------------------------------------------- codecs

IsBrep(v) == v = "Brep"

\* compas.json_dump / compas.json_load of a data value
JsonDump(v) == [codec |-> "json", val |-> v]
JsonLoad(c) == c.val
\* Brep.to_step / Brep.from_step
StepDump(v) == [codec |-> "step", val |-> v]
StepLoad(c) == c.val

\* JSON has no tuples: an entry written as a tuple is read back as a list
JsonEntry(e) == [id |-> e.id, label |-> e.label, tup |-> FALSE]
JsonRecords(h) == [i \in 1..Len(h) |-> JsonEntry(h[i])]

\* s[i] for a Python list: i counts from 0, a negative i from the end
PyInRange(s, i) == -Len(s) <= i /\ i < Len(s)
PyIndex(s, i) == IF i < 0 THEN s[Len(s) + i + 1] ELSE s[i + 1]

\* ------------------------------------------------------------ directories

\* (mutant) the rmtree of the session directory left out
DeleteDirsKeepSession ==
    [sessiondir |-> TRUE, datadir |-> EmptyFn, recordsdir |-> EmptyFn,
     historyfile |-> historyfile, auxfiles |-> auxfiles]

\* delete_dirs: rmtree of data, __records, __temp and the session directory
DeleteDirs ==
    [sessiondir |-> FALSE, datadir |-> EmptyFn, recordsdir |-> EmptyFn,
     historyfile |-> <<>>, auxfiles |-> NoAux]

\* ------------------------------------------------------------------ history

\* load_history: the three fields as read from the history file, if it exists
LoadHistory(file, d, c, h) ==
    IF file # <<>>
    THEN [depth |-> file[1].depth, current |-> file[1].current, records |-> file[1].records]
    ELSE [depth |-> d, current |-> c, records |-> h]

\* dump_history: the content written to the history file
DumpHistory(d, c, h) == <<[depth |-> d, current |-> c, records |-> JsonRecords(h)]>>

\* ------------------------------------------------------------ construction

\* __new__: the name of a new object
ResolveName(name) ==
    IF name # "" THEN name
    ELSE IF sessiondir THEN _name
    ELSE BaseDirName

\* __new__ followed by __init__
New(name, depth, settings, delete_existing) ==
    LET isNew == _instance = 0
        \* a session directory of another name is another directory
        other == sessiondir /\ ResolveName(name) # _name
        d0 == IF isNew /\ (delete_existing \/ other)
              THEN DeleteDirs
              ELSE [sessiondir |-> sessiondir, datadir |-> datadir, recordsdir |-> recordsdir,
                    historyfile |-> historyfile, auxfiles |-> auxfiles]
        loaded == IF isNew
                  THEN LoadHistory(d0.historyfile, IF depth # 0 THEN depth ELSE DefaultDepth, -1, <<>>)
                  ELSE LoadHistory(d0.historyfile, _depth, _current, _history)
    IN  /\ _instance' = (IF isNew THEN 1 ELSE _instance)
        /\ _name' = (IF isNew THEN ResolveName(name) ELSE _name)
        /\ _data' = (IF isNew THEN EmptyFn ELSE _data)
        /\ _settings' = (IF isNew THEN SettingsOr(settings) ELSE _settings)
        /\ _depth' = loaded.depth
        /\ _current' = loaded.current
        /\ _history' = loaded.records
        /\ sessiondir' = TRUE
        /\ datadir' = d0.datadir
        /\ recordsdir' = d0.recordsdir
        /\ historyfile' = d0.historyfile
        /\ auxfiles' = d0.auxfiles
        /\ lastOp' = (IF isNew THEN "new" ELSE "lookup")
        /\ arg' = name
        /\ key' = None
        /\ deleting' = delete_existing
        /\ ret' = "instance"
        /\ UNCHANGED <<clock, run>>

\* ------------------------------------------------------------------- data

\* get: the cache after the lazy load of <datadir>/<key>.json
GetCache(data, dd, k) ==
    IF k \notin DOMAIN data /\ <<k, "json">> \in DOMAIN dd
    THEN (k :> JsonLoad(dd[<<k, "json">>])) @@ data
    ELSE data

\* (mutant) the default argument dropped: self.data.get(key)
GetValueNoDefault(data, dd, k, default) ==
    IF k \in DOMAIN GetCache(data, dd, k) THEN GetCache(data, dd, k)[k] ELSE None

\* get: self.data.get(key, default) after the lazy load
GetValue(data, dd, k, default) ==
    IF k \in DOMAIN GetCache(data, dd, k) THEN GetCache(data, dd, k)[k] ELSE default

Get(k, default) ==
    /\ _instance # 0
    /\ _data' = GetCache(_data, datadir, k)
    /\ ret' = GetValue(_data, datadir, k, default)
    /\ lastOp' = "get"
    /\ arg' = default
    /\ key' = k
    /\ deleting' = FALSE
    /\ UNCHANGED <<_instance, _name, _current, _depth, _history, _settings, disk, clock, run>>

\* __getitem__: session[key]
GetItem(k) ==
    /\ _instance # 0
    /\ _data' = GetCache(_data, datadir, k)
    /\ ret' = (IF GetValue(_data, datadir, k, None) = None
                  /\ k \notin DOMAIN GetCache(_data, datadir, k)
               THEN "KeyError"
               ELSE GetValue(_data, datadir, k, None))
    /\ lastOp' = "getitem"
    /\ arg' = None
    /\ key' = k
    /\ deleting' = FALSE
    /\ UNCHANGED <<_instance, _name, _current, _depth, _history, _settings, disk, clock, run>>

\* get(key, filepath=<datadir>/<key>.<ext>)
GetFrom(k, ext) ==
    /\ _instance # 0
    /\ IF k \notin DOMAIN _data /\ <<k, ext>> \in DOMAIN datadir
       THEN IF ext = "stp"
            THEN /\ _data' = (k :> StepLoad(datadir[<<k, ext>>])) @@ _data
                 /\ ret' = StepLoad(datadir[<<k, ext>>])
            ELSE IF ext = "json"
            THEN /\ _data' = (k :> JsonLoad(datadir[<<k, ext>>])) @@ _data
                 /\ ret' = JsonLoad(datadir[<<k, ext>>])
            ELSE /\ ret' = "NotImplementedError"
                 /\ UNCHANGED _data
       ELSE /\ ret' = (IF k \in DOMAIN _data THEN _data[k] ELSE None)
            /\ UNCHANGED _data
    /\ lastOp' = "get_filepath"
    /\ arg' = None
    /\ key' = k
    /\ deleting' = FALSE
    /\ UNCHANGED <<_instance, _name, _current, _depth, _history, _settings, disk, clock, run>>

Set(k, v) ==
    /\ _instance # 0
    /\ _data' = (k :> v) @@ _data
    /\ datadir' = (IF _settings.autosync
                   THEN (<<k, "json">> :> JsonDump(v)) @@ datadir
                   ELSE datadir)
    /\ ret' = None
    /\ lastOp' = "set"
    /\ arg' = None
    /\ key' = k
    /\ deleting' = FALSE
    /\ UNCHANGED <<_instance, _name, _current, _depth, _history, _settings,
                   sessiondir, recordsdir, historyfile, auxfiles, clock, run>>

\* setdefault: set(key, factory()) when the key is not cached, then get(key);
\* made is what factory returns, arg tells whether it was called
SetDefault(k, made) ==
    /\ _instance # 0
    /\ LET called == k \notin DOMAIN _data
           data1 == IF called THEN (k :> made) @@ _data ELSE _data
           dd1 == IF called /\ _settings.autosync
                  THEN (<<k, "json">> :> JsonDump(made)) @@ datadir
                  ELSE datadir
       IN  /\ _data' = GetCache(data1, dd1, k)
           /\ datadir' = dd1
           /\ ret' = GetValue(data1, dd1, k, None)
           /\ arg' = (IF called THEN "factory()" ELSE None)
    /\ lastOp' = "setdefault"
    /\ key' = k
    /\ deleting' = FALSE
    /\ UNCHANGED <<_instance, _name, _current, _depth, _history, _settings,
                   sessiondir, recordsdir, historyfile, auxfiles, clock, run>>

\* (mutant) the .json file only
JsonFileOf(k) == {<<k, "json">>}

\* delete: the three files it unlinks
DataFilesOf(k) == {<<k, "json">>, <<k, "obj">>, <<k, "stp">>}

Delete(k) ==
    /\ _instance # 0
    /\ _data' = [j \in DOMAIN _data \ {k} |-> _data[j]]
    /\ datadir' = [f \in DOMAIN datadir \ DataFilesOf(k) |-> datadir[f]]
    /\ ret' = None
    /\ lastOp' = "delete"
    /\ arg' = None
    /\ key' = k
    /\ deleting' = FALSE
    /\ UNCHANGED <<_instance, _name, _current, _depth, _history, _settings,
                   sessiondir, recordsdir, historyfile, auxfiles, clock, run>>

\* dump: the data files after every resident value is written
DumpData(dd, data) ==
    LET ext(k) == IF IsBrep(data[k]) THEN "stp" ELSE "json"
        written == {<<k, ext(k)>> : k \in DOMAIN data}
    IN  [f \in DOMAIN dd \cup written |->
            IF f \in written
            THEN (IF f[2] = "stp" THEN StepDump(data[f[1]]) ELSE JsonDump(data[f[1]]))
            ELSE dd[f]]

\* dump: the scene, settings, tolerance and version files it writes
DumpAux(settings) ==
    [scene |-> <<"scene">>, settings |-> <<settings>>,
     tolerance |-> <<"TOL">>, version |-> <<"version">>]

\* dump()
Dump ==
    /\ _instance # 0
    /\ historyfile' = DumpHistory(_depth, _current, _history)
    /\ auxfiles' = DumpAux(_settings)
    /\ datadir' = DumpData(datadir, _data)
    /\ ret' = None
    /\ lastOp' = "dump"
    /\ arg' = None
    /\ key' = None
    /\ deleting' = FALSE
    /\ UNCHANGED <<_instance, _name, memory, sessiondir, recordsdir, clock, run>>

\* the process ends: the class slot is None again in the next one, the
\* object is gone, the session directory stays
Exit ==
    /\ _instance # 0
    /\ _instance' = 0
    /\ _current' = -1
    /\ _depth' = DefaultDepth
    /\ _history' = <<>>
    /\ _data' = EmptyFn
    /\ _settings' = DefaultSettings
    /\ ret' = None
    /\ lastOp' = "exit"
    /\ arg' = None
    /\ key' = None
    /\ deleting' = FALSE
    /\ run' = 0
    /\ UNCHANGED <<_name, disk, clock>>

\* ----------------------------------------------------------- clear_history

ClearHistory ==
    /\ _instance # 0
    /\ _current' = -1
    /\ _depth' = DefaultDepth
    /\ recordsdir' = [r \in DOMAIN recordsdir \ {_history[i].id : i \in 1..Len(_history)}
                        |-> recordsdir[r]]
    /\ _history' = <<>>
    /\ ret' = None
    /\ lastOp' = "clear_history"
    /\ arg' = None
    /\ key' = None
    /\ deleting' = FALSE
    /\ run' = 0
    /\ UNCHANGED <<_instance, _name, _data, _settings, sessiondir, datadir,
                   historyfile, auxfiles, clock>>

\* ------------------------------------------------------------------ record

\* record: the entries kept when the cursor is not at the tail
Truncated(h, c) ==
    IF c > -1 /\ c < Len(h) - 1 THEN SubSeq(h, 1, c + 1) ELSE h

\* record: the entries kept when the history is longer than depth
Trimmed(h, d) ==
    IF Len(h) > d THEN SubSeq(h, Len(h) - d + 1, Len(h)) ELSE h

\* (mutant) the cursor left one past the tail
RecordCurrentPastTail(h) == Len(h)

\* record: the cursor it leaves
RecordCurrent(h) == Len(h) - 1

Record(label) ==
    /\ _instance # 0
    /\ clock < MaxRecords
    /\ LET record == clock + 1
           h1 == Append(Truncated(_history, _current),
                        [id |-> record, label |-> label, tup |-> TRUE])
           dd == DumpData(datadir, _data)
           aux == DumpAux(_settings)
           h2 == Trimmed(h1, _depth)
       IN  /\ clock' = record
           /\ historyfile' = DumpHistory(_depth, _current, h1)
           /\ auxfiles' = aux
           /\ datadir' = dd
           /\ recordsdir' = (record :> [data |-> dd, aux |-> aux]) @@ recordsdir
           /\ _history' = h2
           /\ _current' = RecordCurrent(h2)
    /\ ret' = None
    /\ lastOp' = "record"
    /\ arg' = None
    /\ key' = None
    /\ deleting' = FALSE
    /\ run' = run + 1
    /\ UNCHANGED <<_instance, _name, _depth, _data, _settings, sessiondir>>

\* --------------------------------------------------------------- undo, redo

\* the four unlink calls of undo and redo, in their order: the files left
\* when one of them is missing, and whether all four were there
UnlinkAux(aux) ==
    IF aux.scene = <<>> THEN [ok |-> FALSE, aux |-> aux]
    ELSE IF aux.settings = <<>> THEN [ok |-> FALSE, aux |-> [aux EXCEPT !.scene = <<>>]]
    ELSE IF aux.tolerance = <<>>
        THEN [ok |-> FALSE, aux |-> [aux EXCEPT !.scene = <<>>, !.settings = <<>>]]
    ELSE IF aux.version = <<>>
        THEN [ok |-> FALSE,
              aux |-> [aux EXCEPT !.scene = <<>>, !.settings = <<>>, !.tolerance = <<>>]]
    ELSE [ok |-> TRUE, aux |-> NoAux]

\* (mutant) the folder moved instead of copied
MoveTree(folders, record) == [r \in DOMAIN folders \ {record} |-> folders[r]]

\* shutil.copytree and shutil.copy out of a snapshot folder: the folders after
CopyTree(folders, record) == folders

\* undo and redo from the moved cursor c on: the entry, the folder test, the
\* restore of the live directory from the folder, the history file
MoveTo(c) ==
    /\ _current' = c
    /\ UNCHANGED <<_depth, _history, _data, _settings, sessiondir>>
    /\ IF ~PyInRange(_history, c)
       THEN /\ ret' = "IndexError"
            /\ UNCHANGED <<datadir, recordsdir, historyfile, auxfiles>>
       ELSE LET record == PyIndex(_history, c).id IN
            IF record \in DOMAIN recordsdir
            THEN IF UnlinkAux(auxfiles).ok
                 THEN /\ datadir' = recordsdir[record].data
                      /\ auxfiles' = recordsdir[record].aux
                      /\ recordsdir' = CopyTree(recordsdir, record)
                      /\ historyfile' = DumpHistory(_depth, c, _history)
                      /\ ret' = "True"
                 ELSE /\ datadir' = EmptyFn
                      /\ auxfiles' = UnlinkAux(auxfiles).aux
                      /\ ret' = "FileNotFoundError"
                      /\ UNCHANGED <<recordsdir, historyfile>>
            ELSE /\ ret' = "False"
                 /\ UNCHANGED <<datadir, recordsdir, historyfile, auxfiles>>

\* (mutant) undo that leaves the cursor where it is
DecrementedNot(c) == c

\* undo: self._current -= 1
Decremented(c) == c - 1

\* (mutant) redo that puts the cursor on the last entry
IncrementedToLast(c) == Len(_history) - 1

\* redo: self._current += 1
Incremented(c) == c + 1

\* (mutant) the test for the oldest entry left out
NothingToUndoOnlyEmpty == _current < 0

\* undo: "Nothing to undo!" and "Nothing more to undo!"
NothingToUndo == _current < 0 \/ _current = 0

\* (mutant) the tail test off by one
NothingToRedoPastTail == _current >= Len(_history)

\* redo: "Nothing more to redo!"
NothingToRedo == _current >= Len(_history) - 1

Undo ==
    /\ _instance # 0
    /\ IF NothingToUndo
       THEN ret' = "False" /\ UNCHANGED <<memory, disk>>
       ELSE MoveTo(Decremented(_current))
    /\ lastOp' = "undo"
    /\ arg' = None
    /\ key' = None
    /\ deleting' = FALSE
    /\ run' = 0
    /\ UNCHANGED <<_instance, _name, clock>>

Redo ==
    /\ _instance # 0
    /\ IF NothingToRedo
       THEN ret' = "False" /\ UNCHANGED <<memory, disk>>
       ELSE MoveTo(Incremented(_current))
    /\ lastOp' = "redo"
    /\ arg' = None
    /\ key' = None
    /\ deleting' = FALSE
    /\ run' = 0
    /\ UNCHANGED <<_instance, _name, clock>>

\* ==================================================================== Session

\* the name argument of Session(...): "" stands for None and ""
SessionNames == {"", "One", "Two"}
\* the settings argument of Session(...): None, or a Settings object
SessionSettingsArgs == {None, "Settings(autosave=True)"}
\* the basedir and scene arguments: both None, or a directory and a Scene
\* object of the caller's
OtherArgs == {[basedir |-> None, scene |-> None], [basedir |-> "dirB", scene |-> "sceneB"]}

\* (mutant) a default with autosave switched on
SessionSettingsOrOn(settings) == [autosave |-> TRUE, autosync |-> TRUE]

\* __init__: settings or Settings()
SessionSettingsOr(settings) ==
    IF settings = None THEN DefaultSettings ELSE [autosave |-> TRUE, autosync |-> TRUE]

\* __init__: scene or Scene()
SceneOr(scene) == IF scene = None THEN "Scene()" ELSE scene

\* __init__: pathlib.Path(basedir or os.getcwd())
BasedirOr(basedir) == IF basedir = None THEN "cwd" ELSE basedir

\* scall after a call that is not a construction
NoArgs == [name |-> None, settings |-> None]

\* (mutant) the test for the name left out
NameMissingNever(name) == FALSE

\* __new__: not name
NameMissing(name) == name = ""

\* (mutant) every construction makes a new object
NewInstanceAlways(name) == TRUE

\* __new__: name not in cls._instances
NewInstanceNeeded(name) == name \notin DOMAIN _instances

\* (mutant) __init__ without its guard
InitAlways(inited) == TRUE

\* __init__: not self._is_inited
InitNeeded(inited) == ~inited

\* __new__ followed by __init__
SessionNew(name, basedir, scene, settings) ==
    /\ scall' = [name |-> name, settings |-> settings]
    /\ IF NameMissing(name)
       THEN /\ sret' = "SessionError"
            /\ UNCHANGED <<_instances, sessions, returned, tempfiles>>
       ELSE LET fresh == NewInstanceNeeded(name)
                obj == IF fresh THEN Len(sessions) + 1 ELSE _instances[name]
                inited == IF fresh THEN FALSE ELSE sessions[obj]._is_inited
                made == [name |-> name, data |-> EmptyFn,
                         scene |-> SceneOr(scene),
                         settings |-> SessionSettingsOr(settings),
                         current |-> -1, depth |-> DefaultDepth,
                         history |-> <<>>,
                         basedir |-> BasedirOr(basedir),
                         _is_inited |-> TRUE]
            IN  /\ _instances' = (IF fresh THEN (name :> obj) @@ _instances ELSE _instances)
                /\ sessions' = (IF ~InitNeeded(inited) THEN sessions
                                ELSE IF fresh THEN Append(sessions, made)
                                ELSE [sessions EXCEPT ![obj] = made])
                /\ returned' = returned \cup {<<name, obj>>}
                /\ sret' = "instance"
                /\ UNCHANGED tempfiles

\* set, on the object a construction returned
SessionSet(obj, k, v) ==
    /\ obj \in 1..Len(sessions)
    /\ sessions' = [sessions EXCEPT ![obj].data = (k :> v) @@ @]
    /\ sret' = None
    /\ scall' = NoArgs
    /\ UNCHANGED <<_instances, returned, tempfiles>>

\* get
SessionGet(obj, k) ==
    /\ obj \in 1..Len(sessions)
    /\ sret' = (IF k \in DOMAIN sessions[obj].data THEN sessions[obj].data[k] ELSE None)
    /\ scall' = NoArgs
    /\ UNCHANGED <<_instances, sessions, returned, tempfiles>>

\* session.settings.autosave = b
SessionSetAutosave(obj, b) ==
    /\ obj \in 1..Len(sessions)
    /\ sessions' = [sessions EXCEPT ![obj].settings.autosave = b]
    /\ sret' = None
    /\ scall' = NoArgs
    /\ UNCHANGED <<_instances, returned, tempfiles>>

\* dump: compas.json_dump of data, scene and settings.model_dump()
SessionDump(this) ==
    JsonDump([data |-> this.data, scene |-> this.scene, settings |-> this.settings])

\* (mutant) a load that leaves the settings of the session
SessionLoadKeepSettings(this, filepath) ==
    LET session == JsonLoad(tempfiles[filepath])
    IN  [this EXCEPT !.data = session.data, !.scene = session.scene]

\* load(filepath, reset=False): data and scene from the file, settings a new
\* object of the same class made from the stored fields
SessionLoad(this, filepath) ==
    LET session == JsonLoad(tempfiles[filepath])
    IN  [this EXCEPT !.data = session.data, !.scene = session.scene,
                     !.settings = session.settings]

\* session.scene = scene
SessionSetScene(obj, scene) ==
    /\ obj \in 1..Len(sessions)
    /\ sessions' = [sessions EXCEPT ![obj].scene = scene]
    /\ sret' = None
    /\ scall' = NoArgs
    /\ UNCHANGED <<_instances, returned, tempfiles>>

\* undo: False below the second entry, else the cursor one back and the
\* file of that entry loaded
SessionUndo(obj) ==
    /\ obj \in 1..Len(sessions)
    /\ LET this == sessions[obj]
       IN  IF this.current < 0 \/ this.current = 0
           THEN /\ sret' = "False"
                /\ UNCHANGED sessions
           ELSE LET moved == [this EXCEPT !.current = @ - 1]
                    filepath == PyIndex(moved.history, moved.current).filepath
                IN  /\ sessions' = [sessions EXCEPT ![obj] = SessionLoad(moved, filepath)]
                    /\ sret' = "True"
    /\ scall' = NoArgs
    /\ UNCHANGED <<_instances, returned, tempfiles>>

\* redo: False on the last entry, else the cursor one forward and the file
\* of that entry loaded
SessionRedo(obj) ==
    /\ obj \in 1..Len(sessions)
    /\ LET this == sessions[obj]
       IN  IF this.current = Len(this.history) - 1
           THEN /\ sret' = "False"
                /\ UNCHANGED sessions
           ELSE LET moved == [this EXCEPT !.current = @ + 1]
                    filepath == PyIndex(moved.history, moved.current).filepath
                IN  /\ sessions' = [sessions EXCEPT ![obj] = SessionLoad(moved, filepath)]
                    /\ sret' = "True"
    /\ scall' = NoArgs
    /\ UNCHANGED <<_instances, returned, tempfiles>>

\* record: mkstemp in the temp directory, dump to that file, the entry
\* appended, the history cut to depth, the cursor on the last entry
SessionRecord(obj, label) ==
    /\ obj \in 1..Len(sessions)
    /\ LET this == sessions[obj]
           h0 == IF this.current > -1 /\ this.current < Len(this.history) - 1
                 THEN SubSeq(this.history, 1, this.current + 1)
                 ELSE this.history
           filepath == Len(tempfiles) + 1
           h1 == Append(h0, [filepath |-> filepath, name |-> label])
           h2 == IF Len(h1) > this.depth
                 THEN SubSeq(h1, Len(h1) - this.depth + 1, Len(h1))
                 ELSE h1
       IN  /\ tempfiles' = Append(tempfiles, SessionDump(this))
           /\ sessions' = [sessions EXCEPT ![obj].history = h2,
                                           ![obj].current = Len(h2) - 1]
    /\ sret' = None
    /\ scall' = NoArgs
    /\ UNCHANGED <<_instances, returned>>

\* ============================================================ specifications

LazyIdle == UNCHANGED lazyvars
SessionIdle == UNCHANGED sessvars
StreakIdle == UNCHANGED streakvars

vars == <<lazyvars, sessvars, streakvars>>

\* a base directory with no session directory in it
NoDir == [name |-> "", datadir |-> EmptyFn, recordsdir |-> EmptyFn,
          historyfile |-> <<>>, auxfiles |-> NoAux]

\* the state before the first construction, over a base directory that holds
\* the session directory dir (its name "": none)
InitOver(dir) ==
    /\ _instance = 0
    /\ _name = dir.name
    /\ _current = -1
    /\ _depth = DefaultDepth
    /\ _history = <<>>
    /\ _data = EmptyFn
    /\ _settings = DefaultSettings
    /\ sessiondir = (dir.name # "")
    /\ datadir = dir.datadir
    /\ recordsdir = dir.recordsdir
    /\ historyfile = dir.historyfile
    /\ auxfiles = dir.auxfiles
    /\ clock = 0
    /\ lastOp = "init"
    /\ arg = None
    /\ key = None
    /\ deleting = FALSE
    /\ ret = None
    /\ run = 0
    /\ _instances = EmptyFn
    /\ sessions = <<>>
    /\ returned = {}
    /\ tempfiles = <<>>
    /\ scall = NoArgs
    /\ sret = None
    /\ streakLimit = 0
    /\ streakTrue = 0

Init == InitOver(NoDir)

Next ==
    \* the first construction, and every later one: with the slot taken, __new__
    \* and __init__ read none of their arguments
    \/ \E name \in NameArgs, depth \in DepthArgs, settings \in SettingsArgs, del \in BOOLEAN :
          _instance = 0 /\ New(name, depth, settings, del) /\ SessionIdle /\ StreakIdle
    \/ \E name \in NameArgs : _instance # 0 /\ New(name, 0, None, FALSE) /\ SessionIdle /\ StreakIdle
    \/ \E k \in Keys : Get(k, None) /\ SessionIdle /\ StreakIdle
    \/ \E k \in Keys, v \in Vals : Set(k, v) /\ SessionIdle /\ StreakIdle
    \/ \E k \in Keys : Delete(k) /\ SessionIdle /\ StreakIdle
    \/ \E label \in Labels(clock + 1) : Record(label) /\ SessionIdle /\ StreakIdle
    \/ Undo /\ SessionIdle /\ StreakIdle
    \/ Redo /\ SessionIdle /\ StreakIdle
    \/ ClearHistory /\ SessionIdle /\ StreakIdle

Spec == Init /\ [][Next]_vars

\* constructions under the names of the tests, and the data calls
DataNext ==
    \/ \E name \in TestNameArgs, depth \in DepthArgs, settings \in SettingsArgs, del \in BOOLEAN :
          _instance = 0 /\ New(name, depth, settings, del) /\ SessionIdle /\ StreakIdle
    \/ \E name \in TestNameArgs : _instance # 0 /\ New(name, 0, None, FALSE) /\ SessionIdle /\ StreakIdle
    \/ \E k \in Keys, default \in Defaults : Get(k, default) /\ SessionIdle /\ StreakIdle
    \/ \E k \in Keys : GetItem(k) /\ SessionIdle /\ StreakIdle
    \/ \E k \in Keys, v \in Vals : Set(k, v) /\ SessionIdle /\ StreakIdle
    \/ \E k \in Keys : Delete(k) /\ SessionIdle /\ StreakIdle

SpecData == Init /\ [][DataNext]_vars

\* a file the user has put into the data directory
ObjFile == [codec |-> "obj", val |-> "mesh"]

\* the session directory "One" as an earlier process has left it after one
\* record("A") of an empty session, with an .obj file the user has added
EarlierDir ==
    [name |-> "One",
     datadir |-> (<<"x", "obj">> :> ObjFile),
     recordsdir |-> (0 :> [data |-> EmptyFn, aux |-> DumpAux(DefaultSettings)]),
     historyfile |-> DumpHistory(DefaultDepth, -1,
                                 <<[id |-> 0, label |-> "A", tup |-> TRUE]>>),
     auxfiles |-> DumpAux(DefaultSettings)]

\* the data store over processes: the base directory is empty or holds "One"
StoreInit == Init \/ InitOver(EarlierDir)

StoreNext ==
    \/ \E settings \in SettingsArgs, del \in BOOLEAN :
          _instance = 0 /\ New("One", 0, settings, del) /\ SessionIdle /\ StreakIdle
    \/ \E del \in BOOLEAN : _instance # 0 /\ New("One", 0, None, del) /\ SessionIdle /\ StreakIdle
    \/ \E k \in StoreKeys, default \in Defaults : Get(k, default) /\ SessionIdle /\ StreakIdle
    \/ \E k \in StoreKeys, ext \in FilepathArgs : GetFrom(k, ext) /\ SessionIdle /\ StreakIdle
    \/ \E k \in StoreKeys, v \in StoreVals : Set(k, v) /\ SessionIdle /\ StreakIdle
    \/ \E k \in StoreKeys, made \in StoreVals : SetDefault(k, made) /\ SessionIdle /\ StreakIdle
    \/ \E k \in StoreKeys : Delete(k) /\ SessionIdle /\ StreakIdle
    \/ Dump /\ SessionIdle /\ StreakIdle
    \/ Exit /\ SessionIdle /\ StreakIdle

SpecStore == StoreInit /\ [][StoreNext]_vars

SessionNext ==
    \/ \E name \in SessionNames, other \in OtherArgs, settings \in SessionSettingsArgs :
          SessionNew(name, other.basedir, other.scene, settings) /\ LazyIdle /\ StreakIdle
    \/ \E obj \in 1..Len(sessions), k \in Keys, v \in Vals : SessionSet(obj, k, v) /\ LazyIdle /\ StreakIdle
    \/ \E obj \in 1..Len(sessions), k \in Keys : SessionGet(obj, k) /\ LazyIdle /\ StreakIdle
    \/ \E obj \in 1..Len(sessions), b \in BOOLEAN : SessionSetAutosave(obj, b) /\ LazyIdle /\ StreakIdle
    \/ \E obj \in 1..Len(sessions) :
          /\ Len(tempfiles) < MaxSessionFiles
          /\ SessionRecord(obj, LabelSeq[Len(tempfiles) + 1]) /\ LazyIdle /\ StreakIdle

SpecSession == Init /\ [][SessionNext]_vars

\* a call that is neither undo nor redo ends the run
StreakOff ==
    /\ streakLimit' = 0
    /\ streakTrue' = 0

\* an undo or redo call that has just returned: the first of a run notes how
\* far the cursor is from the end it moves to, every one counts its True
StreakCall(op) ==
    LET first == lastOp # op
        limit == IF op = "undo" THEN _current ELSE Len(_history) - 1 - _current
        counted == IF ret' = "True" THEN 1 ELSE 0
    IN  /\ streakLimit' = (IF first THEN limit ELSE streakLimit)
        /\ streakTrue' = (IF first THEN 0 ELSE streakTrue) + counted

\* record, undo, redo, clear_history and session lookups, with the runs of
\* consecutive undo and redo calls counted
StreakNext ==
    \/ \E depth \in DepthArgs :
          _instance = 0 /\ New("One", depth, None, FALSE) /\ SessionIdle /\ StreakOff
    \/ _instance # 0 /\ New("One", 0, None, FALSE) /\ SessionIdle /\ StreakOff
    \/ \E k \in Keys, v \in Vals : Set(k, v) /\ SessionIdle /\ StreakOff
    \/ \E label \in Labels(clock + 1) : Record(label) /\ SessionIdle /\ StreakOff
    \/ Undo /\ StreakCall("undo") /\ SessionIdle
    \/ Redo /\ StreakCall("redo") /\ SessionIdle
    \/ ClearHistory /\ SessionIdle /\ StreakOff

SpecStreak == Init /\ [][StreakNext]_vars

\* the scenes a caller assigns
Scenes == {"Scene()", "sceneB"}

\* one Session with its history: set, attribute assignments, record, undo, redo
UndoNext ==
    \/ \E settings \in SessionSettingsArgs : SessionNew("One", None, None, settings) /\ LazyIdle /\ StreakIdle
    \/ \E obj \in 1..Len(sessions), k \in Keys, v \in Vals : SessionSet(obj, k, v) /\ LazyIdle /\ StreakIdle
    \/ \E obj \in 1..Len(sessions), k \in Keys : SessionGet(obj, k) /\ LazyIdle /\ StreakIdle
    \/ \E obj \in 1..Len(sessions), b \in BOOLEAN : SessionSetAutosave(obj, b) /\ LazyIdle /\ StreakIdle
    \/ \E obj \in 1..Len(sessions), scene \in Scenes : SessionSetScene(obj, scene) /\ LazyIdle /\ StreakIdle
    \/ \E obj \in 1..Len(sessions) :
          /\ Len(tempfiles) < MaxUndoFiles
          /\ SessionRecord(obj, LabelSeq[Len(tempfiles) + 1]) /\ LazyIdle /\ StreakIdle
    \/ \E obj \in 1..Len(sessions) : SessionUndo(obj) /\ LazyIdle /\ StreakIdle
    \/ \E obj \in 1..Len(sessions) : SessionRedo(obj) /\ LazyIdle /\ StreakIdle

SpecUndo == Init /\ [][UndoNext]_vars

\* ===================================================================== claims

\* the value of key k in the snapshot folder of a record id (None: no file)
SnapshotValue(folders, record, k) ==
    IF record \in DOMAIN folders /\ <<k, "json">> \in DOMAIN folders[record].data
    THEN JsonLoad(folders[record].data[<<k, "json">>])
    ELSE None

\* the entry at cursor c has no snapshot folder
TargetMissing(c) ==
    PyInRange(_history, c) /\ PyIndex(_history, c).id \notin DOMAIN recordsdir

\* C1: Session constructions with the same name have all returned the same
\* object, and constructions with different names different objects.
C1_OneInstancePerName ==
    \A p \in returned, q \in returned :
        /\ (p[1] = q[1] => p[2] = q[2])
        /\ (p[1] # q[1] => p[2] # q[2])

\* C1 witness: two names are registered, both objects have been written to,
\* and the last call was a construction, so it returned an existing object.
C1_Witness ==
    /\ Len(sessions) = 2
    /\ \A obj \in 1..2 : sessions[obj].data # EmptyFn
    /\ sret = "instance"
    /\ Cardinality(returned) = 2

\* C2: after record, undo, redo, clear_history and lookups in any order,
\* -1 <= current <= len(history) - 1.
C2_CursorInRange ==
    _instance # 0 => (-1 <= _current /\ _current <= Len(_history) - 1)

\* C2 witness: a lookup has reloaded a history file of three entries whose
\* stored cursor is 1.
C2_Witness ==
    lastOp = "lookup" /\ Len(_history) = 3 /\ _current = 1

\* C3: len(history) <= depth in every state, and a record leaves the cursor
\* at len(history) - 1.
C3_HistoryWithinDepth ==
    _instance # 0 =>
        /\ Len(_history) <= _depth
        /\ (lastOp = "record" => _current = Len(_history) - 1)

\* C4: after a successful undo, get(k) is for every key the value in the
\* snapshot of the entry now at the cursor.
C4_UndoRestoresData ==
    (lastOp = "undo" /\ ret = "True") =>
        \A k \in Keys :
            GetValue(_data, datadir, k, None)
                = SnapshotValue(recordsdir, _history[_current + 1].id, k)

\* C5: undo with current <= 0 and redo with current >= len(history) - 1
\* return False and change neither the object nor the session directory.
C5_BoundaryCallsChangeNothing ==
    [][ (\/ (lastOp' = "undo" /\ _current <= 0)
         \/ (lastOp' = "redo" /\ _current >= Len(_history) - 1))
        => (ret' = "False" /\ UNCHANGED <<memory, disk>>) ]_vars

\* C5 witness: undo has returned False at the oldest of two entries, both of
\* which have their snapshot folder.
C5_Witness ==
    /\ lastOp = "undo" /\ ret = "False"
    /\ _current = 0 /\ Len(_history) = 2
    /\ \A i \in 1..2 : _history[i].id \in DOMAIN recordsdir

\* C6: undo or redo towards an entry whose snapshot folder is missing returns
\* False and changes neither the object (cursor included) nor the directory.
C6_MissingSnapshotChangesNothing ==
    [][ (\/ (lastOp' = "undo" /\ ~NothingToUndo /\ TargetMissing(_current - 1))
         \/ (lastOp' = "redo" /\ ~NothingToRedo /\ TargetMissing(_current + 1)))
        => (ret' = "False" /\ UNCHANGED <<memory, disk>>) ]_vars

\* C7: record with current < len(history) - 1 leaves current + 2 entries, the
\* first current + 1 as they were, the new one last, and no snapshot folder
\* of a discarded entry.
C7_RecordDiscardsRedoBranch ==
    [][ (lastOp' = "record" /\ _current < Len(_history) - 1) =>
            /\ Len(_history') = _current + 2
            /\ SubSeq(_history', 1, _current + 1) = SubSeq(_history, 1, _current + 1)
            /\ _history'[Len(_history')].label = LabelSeq[clock']
            /\ \A i \in (_current + 2)..Len(_history) :
                   _history[i].id \notin DOMAIN recordsdir' ]_vars

\* C8: once more than depth record calls have been made (none of them
\* separated by undo, redo or clear_history), a record leaves exactly depth
\* entries, carrying the labels of the depth latest record calls in order.
C8_DepthLatestLabels ==
    (lastOp = "record" /\ run > _depth) =>
        /\ Len(_history) = _depth
        /\ \A i \in 1.._depth : _history[i].label = LabelSeq[clock - _depth + i]

\* C9: a record leaves the cursor at the tail and its label in the last
\* entry; a redo after a record, with no undo since, returns False.
C9_RecordEndsAtTail ==
    [][ /\ (lastOp' = "record" =>
               /\ _current' = Len(_history') - 1
               /\ _history'[Len(_history')].label = LabelSeq[clock'])
        /\ ((lastOp' = "redo" /\ run > 0) => ret' = "False") ]_vars

\* C10: a redo that follows a successful undo succeeds, puts the cursor back,
\* leaves history as it was, and get(k) is for every key the value in the
\* snapshot of the entry the undo moved away from.
C10_RedoInvertsUndo ==
    [][ (lastOp = "undo" /\ ret = "True" /\ lastOp' = "redo") =>
            /\ ret' = "True"
            /\ _current' = _current + 1
            /\ _history' = _history
            /\ \A k \in Keys :
                   GetValue(_data', datadir', k, None)
                       = SnapshotValue(recordsdir', _history[_current + 2].id, k) ]_vars

\* C11: after record, undo, redo, clear_history and lookups in any order,
\* every entry of history has its snapshot folder in the records directory.
C11_EntriesHaveSnapshots ==
    _instance # 0 =>
        \A i \in 1..Len(_history) : _history[i].id \in DOMAIN recordsdir

\* C12: after every record and every clear_history, each folder in the
\* records directory belongs to an entry of history.
C12_NoOrphanSnapshots ==
    (lastOp \in {"record", "clear_history"}) =>
        \A r \in DOMAIN recordsdir : \E i \in 1..Len(_history) : _history[i].id = r

\* the state clear_history leaves: no entries, the cursor before the first
Cleared == _current = -1 /\ _history = <<>>

\* C13: clear_history sets current to -1 and depth to 53, removes the snapshot
\* folder of every entry that was in history and empties history; undo and
\* redo calls that follow it return False (and leave it cleared).
C13_ClearHistoryResets ==
    [][ /\ (lastOp' = "clear_history" =>
               /\ Cleared'
               /\ _depth' = DefaultDepth
               /\ \A i \in 1..Len(_history) : _history[i].id \notin DOMAIN recordsdir')
        /\ ((Cleared /\ lastOp' \in {"undo", "redo"}) => (ret' = "False" /\ Cleared')) ]_vars

\* C13 witness: clear_history has returned in a session built with depth 2
\* whose two recorded entries (still listed in the history file) had their
\* folders removed.
C13_Witness ==
    /\ lastOp = "clear_history"
    /\ Cleared /\ _depth = DefaultDepth
    /\ historyfile # <<>> /\ historyfile[1].depth = SmallDepth
    /\ Len(historyfile[1].records) = 2
    /\ DOMAIN recordsdir = {}

\* C16: while a session is live, a construction under a different name
\* fails with LazyLoadSessionError.
C16_SecondNameRejected ==
    (lastOp = "lookup" /\ arg # "" /\ arg # _name) => ret = "LazyLoadSessionError"

\* C17: a construction under the name of the live session returns that
\* object, and one under another name a different object (and with it a
\* different settings object: each object holds its own).
C17_InstancePerName ==
    [][ (lastOp' = "lookup" /\ arg' \in {"One", "Two"} /\ _name \in {"One", "Two"}) =>
            /\ (arg' = _name => (_instance' = _instance /\ ret' = "instance"))
            /\ (arg' # _name => (_instance' # _instance /\ ret' = "instance")) ]_vars

\* C18: a construction with name None or "" raises LazyLoadSessionError.
C18_EmptyNameRejected ==
    (lastOp \in {"new", "lookup"} /\ arg = "") => ret = "LazyLoadSessionError"

\* key k has neither a cached value nor a file in the data directory
Missing(k) == k \notin DOMAIN _data /\ \A f \in DOMAIN datadir : f[1] # k

Registered(name) == sessions[_instances[name]]

\* C14: a Session construction with name None or "" fails with SessionError,
\* registers nothing and changes no session.
C14_EmptyNameFails ==
    [][ scall'.name = "" =>
            (sret' = "SessionError" /\ UNCHANGED <<_instances, sessions>>) ]_vars

\* C14 witness: the construction has failed with two sessions registered,
\* both holding data.
C14_Witness ==
    /\ scall.name = "" /\ sret = "SessionError"
    /\ DOMAIN _instances = {"One", "Two"}
    /\ \A n \in DOMAIN _instances : Registered(n).data # EmptyFn

\* C15: a Session construction under a registered name returns the registered
\* object and leaves every field of every session as it was (data, scene,
\* settings, history, current, depth, basedir), whatever arguments it is given.
C15_RegisteredNameUnchanged ==
    [][ scall'.name \in DOMAIN _instances =>
            /\ sret' = "instance"
            /\ <<scall'.name, _instances[scall'.name]>> \in returned'
            /\ UNCHANGED <<_instances, sessions>> ]_vars

\* C15 witness: a construction that passed a Settings object has returned a
\* session that holds data and a recorded entry and whose autosave is off.
C15_Witness ==
    /\ scall.name \in DOMAIN _instances /\ scall.settings # None
    /\ sret = "instance"
    /\ Registered(scall.name).data # EmptyFn
    /\ Registered(scall.name).history # <<>>
    /\ ~Registered(scall.name).settings.autosave

\* C19: a session made without a settings argument has autosave False; a
\* write to the settings of one session leaves those of every other session;
\* a construction under a registered name returns the registered object with
\* its settings as they are.
C19_SettingsPerSession ==
    [][ /\ (Len(sessions') > Len(sessions) /\ scall'.settings = None)
              => ~sessions'[Len(sessions')].settings.autosave
        /\ \A n \in DOMAIN _instances, m \in DOMAIN _instances :
              (n # m /\ sessions'[_instances[n]].settings # Registered(n).settings)
                  => sessions'[_instances[m]].settings = Registered(m).settings
        /\ scall'.name \in DOMAIN _instances =>
              /\ <<scall'.name, _instances[scall'.name]>> \in returned'
              /\ sessions'[_instances'[scall'.name]].settings = Registered(scall'.name).settings
      ]_vars

\* C19 witness: "One" and "Two" were both made without a settings argument,
\* autosave is on in "One" and off in "Two", and "One" has been looked up.
C19_Witness ==
    /\ scall = [name |-> "One", settings |-> None] /\ sret = "instance"
    /\ DOMAIN _instances = {"One", "Two"}
    /\ Registered("One").settings.autosave
    /\ ~Registered("Two").settings.autosave

\* the ids and labels of a history, as a list read back from JSON holds them
Entries(h) == [i \in 1..Len(h) |-> <<h[i].id, h[i].label>>]

\* C26: a record that follows another record with no undo, redo or
\* clear_history in between (get, set, delete and lookups may lie between)
\* keeps the entries there were, in order, and appends one; only the oldest
\* entries may go, to keep depth.
C26_RecordRunAppends ==
    [][ (lastOp' = "record" /\ run > 0) =>
            LET full == Append(_history, _history'[Len(_history')])
                kept == IF Len(full) > _depth THEN _depth ELSE Len(full)
            IN  /\ Len(_history') = kept
                /\ _history' = SubSeq(full, Len(full) - kept + 1, Len(full)) ]_vars

\* C27: when record, undo or redo has returned, the history file holds the
\* depth, cursor and entries of the object, so that load_history changes
\* none of them.
C27_HistoryFileInSync ==
    (lastOp \in {"record", "undo", "redo"}) =>
        LET loaded == LoadHistory(historyfile, _depth, _current, _history)
        IN  /\ loaded.depth = _depth
            /\ loaded.current = _current
            /\ Entries(loaded.records) = Entries(_history)

Loaded(ext, file) == IF ext = "stp" THEN StepLoad(file) ELSE JsonLoad(file)

\* the extension and the file content that go with a value
ExtOf(v) == IF IsBrep(v) THEN "stp" ELSE "json"
Dumped(v) == IF IsBrep(v) THEN StepDump(v) ELSE JsonDump(v)

\* C21: get(key) of a key that is not cached and has a .json or .stp file
\* returns what the codec of that file loads and caches it; get of a cached
\* key returns the cached value; a cached key stays cached until it is
\* deleted or the store is rebuilt (undo, redo, a new process).
C21_GetLoadsBackingFile ==
    [][ \A k \in StoreKeys :
          /\ (lastOp' = "get" /\ key' = k /\ k \notin DOMAIN _data) =>
                LET exts == {e \in {"json", "stp"} : <<k, e>> \in DOMAIN datadir}
                IN  exts # {} =>
                        \E e \in exts :
                            /\ ret' = Loaded(e, datadir[<<k, e>>])
                            /\ k \in DOMAIN _data' /\ _data'[k] = ret'
          /\ (lastOp' = "get" /\ key' = k /\ k \in DOMAIN _data) =>
                (ret' = _data[k] /\ _data' = _data)
          /\ (k \in DOMAIN _data /\ lastOp' \notin {"exit", "undo", "redo"}
                /\ ~(lastOp' = "delete" /\ key' = k)) => k \in DOMAIN _data' ]_vars

\* C22: setdefault(key, factory) does not call factory when the key is cached
\* or its file can be loaded; for a key that is not cached and has its file
\* it returns the value of the file and leaves the file.
C22_SetdefaultOnlyOnMiss ==
    [][ \A k \in StoreKeys : (lastOp' = "setdefault" /\ key' = k) =>
          /\ (k \in DOMAIN _data \/ <<k, "json">> \in DOMAIN datadir) => arg' = None
          /\ (k \notin DOMAIN _data /\ <<k, "json">> \in DOMAIN datadir) =>
                /\ ret' = JsonLoad(datadir[<<k, "json">>])
                /\ datadir' = datadir ]_vars

\* C23: set(key, value) caches the value; with autosync it writes
\* <key>.stp for a Brep and <key>.json for any other value; without autosync
\* it writes no file.
C23_SetPersistsByKind ==
    [][ \A k \in StoreKeys : (lastOp' = "set" /\ key' = k) =>
          /\ k \in DOMAIN _data'
          /\ IF _settings.autosync
             THEN /\ <<k, ExtOf(_data'[k])>> \in DOMAIN datadir'
                  /\ datadir'[<<k, ExtOf(_data'[k])>>] = Dumped(_data'[k])
             ELSE datadir' = datadir ]_vars

\* C24: delete(key) returns with the key out of the cache and no file of the
\* key in the data directory, the other keys, their files and the history as
\* they were; on a key with neither cache entry nor file, and on a second
\* delete of the same key, it changes nothing; a get(key) that follows
\* returns its default.
C24_DeleteRemovesKey ==
    [][ \A k \in StoreKeys :
          /\ (lastOp' = "delete" /\ key' = k) =>
                /\ ret' = None
                /\ k \notin DOMAIN _data'
                /\ \A f \in DOMAIN datadir' : f[1] # k
                /\ \A j \in StoreKeys \ {k} :
                      /\ (j \in DOMAIN _data') = (j \in DOMAIN _data)
                      /\ (j \in DOMAIN _data => _data'[j] = _data[j])
                      /\ \A ext \in {"json", "obj", "stp"} :
                            /\ (<<j, ext>> \in DOMAIN datadir') = (<<j, ext>> \in DOMAIN datadir)
                            /\ (<<j, ext>> \in DOMAIN datadir =>
                                    datadir'[<<j, ext>>] = datadir[<<j, ext>>])
                /\ UNCHANGED <<_current, _depth, _history, _settings,
                               sessiondir, recordsdir, historyfile, auxfiles>>
                /\ (Missing(k) => UNCHANGED <<memory, disk>>)
                /\ ((lastOp = "delete" /\ key = k) => UNCHANGED <<memory, disk>>)
          /\ (lastOp = "delete" /\ key = k /\ lastOp' = "get" /\ key' = k) =>
                (ret' = arg' /\ _data' = _data) ]_vars

\* C24 witness: a delete has returned in a session with one recorded entry
\* where the other key is still cached and still has its .json and .stp files.
C24_Witness ==
    /\ lastOp = "delete" /\ key = "x"
    /\ _history # <<>>
    /\ "y" \in DOMAIN _data
    /\ {<<"y", "json">>, <<"y", "stp">>} \subseteq DOMAIN datadir
    /\ \A f \in DOMAIN datadir : f[1] # "x"

\* C25: get(key) of a key that is not cached and whose file is <key>.obj
\* raises NotImplementedError and caches nothing.
C25_ObjFileRaises ==
    [][ \A k \in StoreKeys :
          (/\ lastOp' = "get" /\ key' = k
           /\ k \notin DOMAIN _data
           /\ {ext \in {"json", "obj", "stp"} : <<k, ext>> \in DOMAIN datadir} = {"obj"}) =>
                (ret' = "NotImplementedError" /\ _data' = _data) ]_vars

\* C29: the first construction with delete_existing=True leaves no history,
\* the cursor at -1, no data file, no snapshot folder and no history file,
\* whatever the base directory held; a later construction with
\* delete_existing=True changes nothing in the session directory.
C29_DeleteExisting ==
    [][ /\ (lastOp' = "new" /\ deleting') =>
              /\ _history' = <<>> /\ _current' = -1
              /\ datadir' = EmptyFn /\ recordsdir' = EmptyFn
              /\ historyfile' = <<>>
        /\ (lastOp' = "lookup" /\ deleting') => UNCHANGED disk ]_vars

\* C29 witness: a later construction with delete_existing=True has returned
\* and the data files, the snapshot folder and the history file are there.
C29_Witness ==
    /\ lastOp = "lookup" /\ deleting
    /\ datadir # EmptyFn /\ recordsdir # EmptyFn /\ historyfile # <<>>
    /\ _history # <<>>

\* C28: a Session.undo that returns True moves current back by one, leaves
\* history and depth, and makes data, scene and settings those stored in
\* the file of the new current entry; record stores the data, scene and
\* settings of the moment in the file of the entry it appends, and no call
\* changes a file afterwards. So set(k, v1); record(A); set(k, v2);
\* record(B); undo() leaves get(k) == v1.
C28_SessionUndoRestores ==
    [][ /\ \A obj \in 1..Len(sessions) :
            (SessionUndo(obj) /\ sret' = "True") =>
                LET before == sessions[obj]
                    after == sessions'[obj]
                    stored == JsonLoad(tempfiles[after.history[after.current + 1].filepath])
                IN  /\ after.current = before.current - 1
                    /\ after.history = before.history
                    /\ after.depth = before.depth
                    /\ after.data = stored.data
                    /\ after.scene = stored.scene
                    /\ after.settings = stored.settings
        /\ \A obj \in 1..Len(sessions) :
            (Len(tempfiles') > Len(tempfiles) /\ SessionRecord(obj, LabelSeq[Len(tempfiles) + 1])) =>
                LET before == sessions[obj]
                    after == sessions'[obj]
                    stored == JsonLoad(tempfiles'[after.history[after.current + 1].filepath])
                IN  /\ after.current = Len(after.history) - 1
                    /\ stored.data = before.data
                    /\ stored.scene = before.scene
                    /\ stored.settings = before.settings
        /\ \A n \in 1..Len(tempfiles) : n <= Len(tempfiles') /\ tempfiles'[n] = tempfiles[n] ]_vars

\* C28 witness: set(x, 10), record(A), set(x, 20), record(B) and an undo that
\* returned True: the cursor is on A and x is 10 again.
C28_Witness ==
    /\ sret = "True"
    /\ Len(sessions) = 1
    /\ Len(sessions[1].history) = 2
    /\ sessions[1].current = 0
    /\ "x" \in DOMAIN sessions[1].data /\ sessions[1].data["x"] = "10"
    /\ JsonLoad(tempfiles[sessions[1].history[1].filepath]).data = ("x" :> "10")
    /\ JsonLoad(tempfiles[sessions[1].history[2].filepath]).data = ("x" :> "20")

\* C31: undo and redo leave the entries of history and depth as they are; of
\* the history fields in memory they change current only, undo by 0 or -1 and
\* redo by 0 or +1, and by exactly -1 and +1 when they return True.
C31_UndoRedoMoveCursorOnly ==
    [][ /\ (lastOp' \in {"undo", "redo"}) => (_history' = _history /\ _depth' = _depth)
        /\ (lastOp' = "undo") =>
              /\ _current' \in {_current, _current - 1}
              /\ (ret' = "True" => _current' = _current - 1)
        /\ (lastOp' = "redo") =>
              /\ _current' \in {_current, _current + 1}
              /\ (ret' = "True" => _current' = _current + 1) ]_vars

\* C31 witness: a redo has returned True with the cursor on the second of
\* three entries, so both an undo and a redo can move it.
C31_Witness ==
    /\ lastOp = "redo" /\ ret = "True"
    /\ Len(_history) = 3 /\ _current = 1

\* n, or 0 when n is negative
AtLeastZero(n) == IF n < 0 THEN 0 ELSE n

\* C32: in a run of consecutive undo calls at most current of them return
\* True, and in a run of consecutive redo calls at most
\* len(history) - 1 - current, both taken at the first call of the run (none
\* when that number is below one); every call of the run after those
\* returns False.
C32_UndoRedoRunsEnd ==
    [][ (lastOp' \in {"undo", "redo"}) =>
          /\ ret' \in {"True", "False"}
          /\ streakTrue' <= AtLeastZero(streakLimit')
          /\ (lastOp = lastOp' /\ streakTrue >= AtLeastZero(streakLimit)) => ret' = "False" ]_vars

\* C32 witness: a run of undo calls that began on the third entry has
\* returned True twice and then False.
C32_Witness ==
    /\ lastOp = "undo" /\ ret = "False"
    /\ streakLimit = 2 /\ streakTrue = 2
    /\ _current = 0

====
